---- MODULE Spec2Model ----
(***************************************************************************)
(* Peppol / Odoo integration: the ingestion pipeline of app.py (watcher,   *)
(* queue, dispatch loop, worker threads, outcome folders), the extractor   *)
(* of parse_pdf.py and the posting / delivery client of peppol.py, run     *)
(* against a model of the remote accounting system.                        *)
(*                                                                         *)
(* Environment assumptions of the model:                                   *)
(*  - only the pipeline moves files; shutil.move raises only when its      *)
(*    source has already been moved away by another worker, or is a file   *)
(*    that os.rename found locked and that is locked still;                *)
(*  - every remote call may fail (OdooClientError);                        *)
(*  - the remote system may already hold partners and invoices.            *)
(***************************************************************************)
EXTENDS Integers, Sequences, FiniteSets, TLC

\* ------------------------------------------------------------------ bounds
MaxRetries == 1      \* pending start_monitoring retry callbacks
MaxEvents == 2       \* network changes, starts by the button and scan periods

\* Two paths in the watched folder and two threads: the least that shows a
\* name collision and a race between workers.
Paths == {1, 2}
Slots == {1, 2}

None == "None"

\* ------------------------------------------------------- documents (input)
\* The text of a document's first page, reduced to the labelled entries the
\* extractor's patterns look for; an entry that is absent is None.
InvoiceNo == "7216"
InvoiceDate == <<"19", "12", "2025">>          \* as printed: dd-mm-yyyy
NoDate == <<>>                                 \* the date pattern did not match
BuyerVat == "BE0123456789"
BuyerName == "AsmitaBv"
OtherVat == "BE0987654321"                     \* the VAT number of another partner

Conformant ==
    [faktuur |-> InvoiceNo, datum |-> InvoiceDate, name |-> BuyerName,
     vat |-> BuyerVat, btw0 |-> None, btw6 |-> "15,00", btw21 |-> None]
ZeroTotals == [Conformant EXCEPT !.btw6 = "0,00"]
NoNumber == [Conformant EXCEPT !.faktuur = None]
NoVat == [Conformant EXCEPT !.vat = None]
TwoBuckets == [Conformant EXCEPT !.btw21 = "1.210,00"]

Docs == {Conformant, ZeroTotals, NoNumber}

\* ------------------------------------------------------------ parse_pdf.py
\* Amounts are kept in cents.
parse_eu_float(val) ==
    CASE val = None -> 0
      [] val = "0,00" -> 0
      [] val = "15,00" -> 1500
      [] val = "1.210,00" -> 121000
      [] OTHER -> 0

extract_invoice_metadata(text) ==
    [invoice_number |-> text.faktuur, invoice_date |-> text.datum]

extract_buyer_info(text) ==
    [name |-> text.name, vat |-> text.vat]

extract_totals(text) ==
    [basis_amount |-> 0,
     btw_0_amount |-> IF text.btw0 # None THEN parse_eu_float(text.btw0) ELSE 0,
     btw_6_amount |-> IF text.btw6 # None THEN parse_eu_float(text.btw6) ELSE 0,
     btw_21_amount |-> IF text.btw21 # None THEN parse_eu_float(text.btw21) ELSE 0,
     total_amount |-> 0]

parse_invoice(text) ==
    [metadata |-> extract_invoice_metadata(text),
     buyer |-> extract_buyer_info(text),
     totals |-> extract_totals(text)]

\* Archive name: buyer name, date in year-month-day order with the separators
\* removed, invoice number.
generate_filename(meta, buyer) ==
    LET d == meta.invoice_date
    IN  buyer.name \o "_" \o d[3] \o d[2] \o d[1] \o "_" \o meta.invoice_number

\* ---------------------------------------------------------------- peppol.py
\* dict.get(key, default)
dict_get(d, key, default) == IF key \in DOMAIN d THEN d[key] ELSE default

\* (rate, label) in the order of tax_map
tax_map == << <<0, "Vrijgesteld">>, <<6, "Voeding en levensmiddelen">>,
              <<21, "Divers/non-food">> >>

\* The key written with the suffix the extractor's totals carry.
btw_key_amount(rate) ==
    CASE rate = 0 -> "btw_0_amount"
      [] rate = 6 -> "btw_6_amount"
      [] rate = 21 -> "btw_21_amount"

\* key = f"btw_{int(rate)}"
btw_key(rate) ==
    CASE rate = 0 -> "btw_0"
      [] rate = 6 -> "btw_6"
      [] rate = 21 -> "btw_21"

\* The lines create_invoice_lines builds, before its emptiness check.
RECURSIVE lines_from(_, _)
lines_from(totals, i) ==
    IF i > Len(tax_map) THEN <<>>
    ELSE LET rate == tax_map[i][1]
             amount == dict_get(totals, btw_key(rate), 0)
             rest == lines_from(totals, i + 1)
         IN  IF amount > 0
             THEN <<[name |-> tax_map[i][2], price_unit |-> amount, tax |-> rate]>> \o rest
             ELSE rest

create_invoice_lines(totals) == lines_from(totals, 1)


\* ------------------------------------------------------------------- state
VARIABLES
    net,          \* os.path.exists(WATCH_FOLDER)
    files,        \* path -> where the file dropped at that path is now, and
                  \*         the run of the worker that moved it
    doc,          \* path -> text of the document that is dropped there
    file_queue,   \* App.file_queue
    is_running,   \* App.is_running
    queue_busy,   \* App.queue_busy
    observer,     \* App.observer is not None
    observers,    \* observer threads running on the watched folder
    loop,         \* check_queue is pending in the event loop
    retries,      \* start_monitoring callbacks pending in the event loop
    events,       \* network changes, starts by the button and scan periods so far
    workers,      \* slot -> the worker thread running in it
    partners,     \* remote res.partner records, by id
    invoices,     \* remote account.move records, by id
    wizards       \* remote account.move.send.wizard records, by id

app == <<is_running, queue_busy, observer, observers, loop, retries>>
remote == <<partners, invoices, wizards>>
vars == <<net, events, files, doc, file_queue, app, workers, remote>>

WATCH_FOLDER == "watch"
SENT_FOLDER == "sent"
POSTED_FOLDER == "posted"
ERROR_FOLDER == "error"
OutcomeFolders == {SENT_FOLDER, POSTED_FOLDER, ERROR_FOLDER}

\* A file name in a folder: base name plus collision counter (0: no suffix).
FileName(base, n) == [base |-> base, n |-> n]
NoName == FileName(None, 0)
\* os.path.basename(file_path)
basename(p) == "Faktuur" \o ToString(p) \o ".pdf"

\* What a call hands back: a (success, message) pair, a bare string, or an
\* exception.
Pair(ok, msg) == [kind |-> "pair", ok |-> ok, msg |-> msg]
Str(msg) == [kind |-> "str", ok |-> FALSE, msg |-> msg]
Raise(msg) == [kind |-> "raise", ok |-> FALSE, msg |-> msg]
NoResult == [kind |-> "none", ok |-> FALSE, msg |-> ""]
\* What is remembered of the worker run that moved a file: what delivery
\* returned, the exception the worker caught and the outcome of posting.
NoRun == [ret |-> NoResult, error |-> "", invoice_message |-> ""]

\* -------------------------------------------------- peppol.py: send_peppol
PartnerStates == {"not_verified", "valid", "not_valid"}
MoveStates == {"ready", "done", "error"}

SendFaults == {"none", "read", "check", "action_invoice_sent", "create",
               "action_send_and_print"}

\* The test of line 317 with its sense inverted.
verification_pending_inverted(partner_state) == partner_state \in {"valid", "not_valid"}

\* send_peppol, line 317: the partner has not been verified yet
verification_pending(partner_state) == partner_state \notin {"valid", "not_valid"}

\* The test of line 326 written against the wrong state.
not_on_peppol_valid(partner_state) == partner_state = "valid"

\* send_peppol, line 326: verification found the partner is not on Peppol
not_on_peppol(partner_state) == partner_state = "not_valid"

\* send_peppol(invoice_id) on the current remote state. fault: the remote call
\* that fails, if any; verdict: what the remote verification check finds;
\* sent: the delivery state the remote send leaves.  Gives the returned value,
\* the remote calls that changed something, and the remote state afterwards.
send_peppol(invoice_id, fault, verdict, sent) ==
    LET invoice == invoices[invoice_id]
        partner_id == invoice.partner_id
        move_state == invoice.peppol
        partner_state == partners[partner_id].state
        same == [partners |-> partners, invoices |-> invoices, wizards |-> wizards]
        wizard_id == Len(wizards) + 1
    IN  IF fault = "read"
        THEN [ret |-> Raise("Connection error"), issued |-> {}] @@ same
        ELSE IF verification_pending(partner_state)
        THEN IF fault = "check"
             THEN [ret |-> Raise("Connection error"), issued |-> {}] @@ same
             ELSE [ret |-> Str("Partner verification triggered: Manual sending required"),
                   issued |-> {"button_account_peppol_check_partner_endpoint"},
                   partners |-> [partners EXCEPT ![partner_id].state = verdict],
                   invoices |-> invoices, wizards |-> wizards]
        ELSE IF not_on_peppol(partner_state)
        THEN [ret |-> Raise("Partner not on Peppol"), issued |-> {}] @@ same
        ELSE IF move_state = "done"
        THEN [ret |-> Pair(FALSE, "Already sent"), issued |-> {}] @@ same
        ELSE IF move_state = "error"
        THEN [ret |-> Pair(FALSE, "Peppol failed"), issued |-> {}] @@ same
        ELSE IF fault = "action_invoice_sent"
        THEN [ret |-> Raise("Connection error"), issued |-> {}] @@ same
        ELSE IF fault = "create"
        THEN [ret |-> Raise("Connection error"),
              issued |-> {"action_invoice_sent"}] @@ same
        ELSE IF fault = "action_send_and_print"
        THEN [ret |-> Raise("Connection error"),
              issued |-> {"action_invoice_sent", "wizard.create"},
              partners |-> partners, invoices |-> invoices,
              wizards |-> Append(wizards, [move_id |-> invoice_id, sent |-> FALSE])]
        ELSE [ret |-> Pair(TRUE, "Invoice sent via Peppol"),
              issued |-> {"action_invoice_sent", "wizard.create", "action_send_and_print"},
              partners |-> partners,
              invoices |-> [invoices EXCEPT ![invoice_id].peppol = sent],
              wizards |-> Append(wizards, [move_id |-> invoice_id, sent |-> TRUE])]

\* The delivery entry point the worker calls.
send_peppol_verify(invoice_id, fault, verdict, sent) ==
    send_peppol(invoice_id, fault, verdict, sent)

\* ---------------------------------------------------------- worker threads
Idle ==
    [pc |-> "idle", path |-> 0, partner_id |-> 0, invoice_id |-> 0,
     new_filename |-> None, invoice_message |-> "", issued |-> {},
     ret |-> NoResult, error |-> "", folder |-> None, name |-> None,
     dest |-> NoName, fin |-> FALSE]

\* os.path.exists(file_path) for a path of the watched folder
src_exists(p) == net /\ files[p].loc = WATCH_FOLDER

\* The steps of one worker after it left the try block or raised in it:
\* move_file(file_path, folder, name), then the finally clause if fin.
ToMove(w, folder, name, fin) ==
    [w EXCEPT !.pc = "move_file", !.folder = folder, !.name = name, !.fin = fin]

\* except Exception: move_file(file_path, ERROR_FOLDER, filename)
Except(w, msg) ==
    ToMove([w EXCEPT !.error = msg], ERROR_FOLDER, basename(w.path), TRUE)

\* ids of the partners with this VAT number, as search returns them
partner_ids(vat) == {i \in DOMAIN partners : partners[i].vat = vat}
\* ids of the out_invoice moves with this reference
move_ids(ref) == {i \in DOMAIN invoices : invoices[i].ref = ref}
\* search(..., limit=1)[0]
first(ids) == CHOOSE i \in ids : \A j \in ids : i <= j

\* process_invoice_worker, line 238
WorkerBegin(s) ==
    /\ workers[s].pc = "spawned"
    /\ queue_busy' = TRUE
    /\ workers' = [workers EXCEPT ![s].pc = "wait_for_file_ready"]
    /\ UNCHANGED <<events, net, files, doc, file_queue, is_running, observer, observers,
                   loop, retries, remote>>

\* process_invoice_worker, lines 244-251: the file becomes ready within the
\* timeout or it does not; a file that is not there never does.
WorkerWait(s) ==
    LET w == workers[s]
    IN  /\ w.pc = "wait_for_file_ready"
        /\ \E ready \in (IF src_exists(w.path) THEN BOOLEAN ELSE {FALSE}) :
             workers' = [workers EXCEPT ![s] =
                 IF ready THEN [w EXCEPT !.pc = "get_or_create_partner"]
                 ELSE ToMove(w, ERROR_FOLDER, basename(w.path), FALSE)]
        /\ UNCHANGED <<net, events, files, doc, file_queue, app, remote>>

\* create_post_invoice, lines 232-236, and get_or_create_partner, lines 155-166
ResolvePartner(s) ==
    LET w == workers[s]
        invoice_data == parse_invoice(doc[w.path])
        vat == invoice_data.buyer.vat
        ids == partner_ids(vat)
    IN  /\ w.pc = "get_or_create_partner"
        /\ \E fault \in {"none", "search"} :
             workers' = [workers EXCEPT ![s] =
                 IF ~src_exists(w.path) THEN Except(w, "No such file")
                 ELSE IF vat = None THEN Except(w, "Customer VAT number is required.")
                 ELSE IF fault = "search" THEN Except(w, "Connection error")
                 ELSE IF ids # {}
                 THEN [w EXCEPT !.pc = "check_duplicate", !.partner_id = first(ids)]
                 ELSE [w EXCEPT !.pc = "create_partner"]]
        /\ UNCHANGED <<net, events, files, doc, file_queue, app, remote>>

\* get_or_create_partner, lines 168-186
CreatePartner(s) ==
    LET w == workers[s]
        vat == parse_invoice(doc[w.path]).buyer.vat
    IN  /\ w.pc = "create_partner"
        /\ \E fault \in {"none", "create"} :
             IF fault = "create"
             THEN /\ workers' = [workers EXCEPT ![s] = Except(w, "Connection error")]
                  /\ UNCHANGED partners
             ELSE /\ partners' = Append(partners, [vat |-> vat, state |-> "not_verified"])
                  /\ workers' = [workers EXCEPT ![s] =
                         [w EXCEPT !.pc = "check_duplicate",
                                   !.partner_id = Len(partners) + 1,
                                   !.issued = @ \cup {"res.partner.create"}]]
        /\ UNCHANGED <<net, events, files, doc, file_queue, app, invoices, wizards>>

\* create_post_invoice, lines 237-254
CheckDuplicate(s) ==
    LET w == workers[s]
        invoice_data == parse_invoice(doc[w.path])
        meta == invoice_data.metadata
        invoice_number == meta.invoice_number
        invoice_date == meta.invoice_date
        existing == move_ids(invoice_number)
    IN  /\ w.pc = "check_duplicate"
        /\ \E fault \in {"none", "search"} :
             workers' = [workers EXCEPT ![s] =
                 IF invoice_number = None \/ invoice_date = NoDate
                 THEN Except(w, "Missing crucial invoice data")
                 ELSE IF fault = "search" THEN Except(w, "Connection error")
                 ELSE IF existing # {}
                 THEN [w EXCEPT !.pc = "send_peppol_verify",
                                !.invoice_id = first(existing),
                                !.new_filename = generate_filename(meta, invoice_data.buyer),
                                !.invoice_message = "already exists"]
                 ELSE [w EXCEPT !.pc = "create_invoice",
                                !.new_filename = generate_filename(meta, invoice_data.buyer)]]
        /\ UNCHANGED <<net, events, files, doc, file_queue, app, remote>>

\* create_post_invoice, lines 256-288
CreateInvoice(s) ==
    LET w == workers[s]
        invoice_data == parse_invoice(doc[w.path])
        meta == invoice_data.metadata
        lines == create_invoice_lines(invoice_data.totals)
        invoice_id == Len(invoices) + 1
        draft == [ref |-> meta.invoice_number, partner_id |-> w.partner_id,
                  state |-> "draft", peppol |-> "ready", attached |-> FALSE,
                  invoice_date |-> meta.invoice_date, lines |-> lines]
        created == [w EXCEPT !.invoice_id = invoice_id,
                             !.issued = @ \cup {"account.move.create"}]
        attached == [created EXCEPT !.issued = @ \cup {"ir.attachment.create"}]
    IN  /\ w.pc = "create_invoice"
        /\ \E fault \in {"none", "search", "create", "attach", "action_post"} :
             IF fault = "search"
             THEN /\ workers' = [workers EXCEPT ![s] = Except(w, "Connection error")]
                  /\ UNCHANGED invoices
             ELSE IF lines = <<>>
             THEN /\ workers' = [workers EXCEPT ![s] =
                         Except(w, "No invoice lines created. Check parsed totals.")]
                  /\ UNCHANGED invoices
             ELSE IF fault = "create"
             THEN /\ workers' = [workers EXCEPT ![s] = Except(w, "Connection error")]
                  /\ UNCHANGED invoices
             ELSE IF ~src_exists(w.path)
             THEN /\ workers' = [workers EXCEPT ![s] = Except(created, "No such file")]
                  /\ invoices' = Append(invoices, draft)
             ELSE IF fault = "attach"
             THEN /\ workers' = [workers EXCEPT ![s] = Except(created, "Connection error")]
                  /\ invoices' = Append(invoices, draft)
             ELSE IF fault = "action_post"
             THEN /\ workers' = [workers EXCEPT ![s] = Except(attached, "Connection error")]
                  /\ invoices' = Append(invoices, [draft EXCEPT !.attached = TRUE])
             ELSE /\ workers' = [workers EXCEPT ![s] =
                         [attached EXCEPT !.pc = "send_peppol_verify",
                                          !.issued = @ \cup {"action_post"},
                                          !.invoice_message = "created & posted"]]
                  /\ invoices' = Append(invoices,
                         [draft EXCEPT !.attached = TRUE, !.state = "posted"])
        /\ UNCHANGED <<net, events, files, doc, file_queue, app, partners, wizards>>

\* The test of line 261 taken on any returned pair, whatever its first part.
success_any_pair(ret) == ret.kind = "pair"

\* process_invoice_worker, lines 259-261: "if success" on the unpacked pair
success(ret) == ret.kind = "pair" /\ ret.ok

\* process_invoice_worker, lines 254-274: the outcome of delivery decides the
\* folder; success, peppol_message = <a bare string> raises ValueError.
Deliver(s) ==
    LET w == workers[s]
    IN  /\ w.pc = "send_peppol_verify"
        /\ \E fault \in SendFaults, verdict \in PartnerStates, sent \in {"done", "error"} :
             LET r == send_peppol_verify(w.invoice_id, fault, verdict, sent)
                 got == [w EXCEPT !.ret = r.ret, !.issued = @ \cup r.issued]
             IN  /\ partners' = r.partners
                 /\ invoices' = r.invoices
                 /\ wizards' = r.wizards
                 /\ workers' = [workers EXCEPT ![s] =
                        CASE r.ret.kind = "raise" -> Except(got, r.ret.msg)
                          [] r.ret.kind = "str" -> Except(got, "too many values to unpack")
                          [] success(r.ret) ->
                                ToMove(got, SENT_FOLDER, w.new_filename, TRUE)
                          [] OTHER -> ToMove(got, POSTED_FOLDER, w.new_filename, TRUE)]
        /\ UNCHANGED <<net, events, files, doc, file_queue, app>>

\* ------------------------------------------------------- app.py: move_file
\* os.path.exists(dest_path)
dest_exists(folder, name) ==
    \E p \in Paths : files[p].loc = folder /\ files[p].name = name

\* move_file without its while loop: the name as given.
free_name_given(folder, base) == FileName(base, 0)

\* The while loop of move_file: the first free name among name, name_1, ...
free_name(folder, base) ==
    LET n == CHOOSE n \in 0..Cardinality(Paths) :
                 /\ ~dest_exists(folder, FileName(base, n))
                 /\ \A m \in 0..(n - 1) : dest_exists(folder, FileName(base, m))
    IN  FileName(base, n)

\* The worker returns: the finally clause resets the busy flag.
Return(s) ==
    LET w == workers[s]
    IN  /\ workers' = [workers EXCEPT ![s] = Idle]
        /\ queue_busy' = IF w.fin THEN FALSE ELSE queue_busy

\* move_file, lines 283-292
MoveFile(s) ==
    LET w == workers[s]
    IN  /\ w.pc = "move_file"
        /\ IF ~src_exists(w.path)
           THEN Return(s)
           ELSE /\ workers' = [workers EXCEPT ![s] =
                       [w EXCEPT !.pc = "shutil_move",
                                 !.dest = free_name(w.folder, w.name)]]
                /\ UNCHANGED queue_busy
        /\ UNCHANGED <<events, net, files, doc, file_queue, is_running, observer, observers,
                       loop, retries, remote>>

\* move_file, lines 294-297: a move onto an existing destination replaces it;
\* a move that raises is logged and nothing else.  A file that was not ready
\* (fin is unset on that path only) may be locked still.
ShutilMove(s) ==
    LET w == workers[s]
    IN  /\ w.pc = "shutil_move"
        /\ \E locked \in (IF w.fin THEN {FALSE} ELSE BOOLEAN) :
           files' = IF ~src_exists(w.path) \/ locked THEN files
                    ELSE [p \in Paths |->
                             IF p = w.path
                             THEN [files[p] EXCEPT !.loc = w.folder, !.name = w.dest,
                                       !.run = [ret |-> w.ret, error |-> w.error,
                                                invoice_message |-> w.invoice_message]]
                             ELSE IF files[p].loc = w.folder /\ files[p].name = w.dest
                             THEN [files[p] EXCEPT !.loc = "lost"]
                             ELSE files[p]]
        /\ Return(s)
        /\ UNCHANGED <<events, net, doc, file_queue, is_running, observer, observers,
                       loop, retries, remote>>

\* ------------------------------------------------------------ app.py: App
\* The sequences that list the members of S once each (os.listdir order).
RECURSIVE Orders(_)
Orders(S) ==
    IF S = {} THEN {<<>>}
    ELSE UNION {{<<x>> \o t : t \in Orders(S \ {x})} : x \in S}

InQueue(q, p) == \E i \in DOMAIN q : q[i] = p

\* scan_existing_files: the PDF files of the folder that are not in queue q
scanned(q) == {p \in Paths : files[p].loc = WATCH_FOLDER /\ ~InQueue(q, p)}

\* scan_existing_files: the queues it may leave, from queue q
scan_existing_files(q) == {q \o t : t \in Orders(scanned(q))}

\* PDFHandler.on_created, once for every running observer
RECURSIVE on_created(_, _, _)
on_created(q, p, n) == IF n = 0 THEN q ELSE on_created(Append(q, p), p, n - 1)

\* A PDF file appears in the watched folder.
DropFile(p) ==
    /\ net
    /\ files[p].loc = "none"
    /\ files' = [files EXCEPT ![p] = [loc |-> WATCH_FOLDER, name |-> FileName(basename(p), 0),
                                     run |-> NoRun]]
    /\ file_queue' = on_created(file_queue, p, observers)
    /\ UNCHANGED <<net, events, doc, app, workers, remote>>

\* The network share goes away or comes back.
NetworkChange ==
    /\ events < MaxEvents
    /\ events' = events + 1
    /\ net' = ~net
    /\ UNCHANGED <<files, doc, file_queue, is_running, queue_busy, observer,
                   observers, loop, retries, workers, remote>>

\* start_monitoring, with `pending` retry callbacks left in the event loop
start_monitoring(pending) ==
    IF is_running
    THEN /\ retries' = pending
         /\ UNCHANGED <<files, file_queue, is_running, observer, observers>>
    ELSE IF ~net
    THEN /\ pending < MaxRetries
         /\ retries' = pending + 1
         /\ UNCHANGED <<files, file_queue, is_running, observer, observers>>
    ELSE /\ file_queue' \in scan_existing_files(file_queue)
         /\ UNCHANGED files
         /\ observer' = TRUE
         /\ observers' = observers + 1
         /\ is_running' = TRUE
         /\ retries' = pending

\* stop_monitoring
stop_monitoring ==
    IF ~is_running \/ ~observer
    THEN UNCHANGED <<files, file_queue, is_running, observer, observers, retries>>
    ELSE /\ observers' = observers - 1
         /\ observer' = FALSE
         /\ is_running' = FALSE
         /\ UNCHANGED <<files, file_queue, retries>>

\* toggle_monitoring: the user presses the button
ToggleMonitoring ==
    /\ IF is_running
       THEN stop_monitoring /\ UNCHANGED events
       ELSE events < MaxEvents /\ events' = events + 1 /\ start_monitoring(retries)
    /\ UNCHANGED <<net, doc, queue_busy, loop, workers, remote>>

\* root.after(10000, self.start_monitoring) fires
RetryStart ==
    /\ retries > 0
    /\ start_monitoring(retries - 1)
    /\ UNCHANGED <<events, net, doc, queue_busy, loop, workers, remote>>

FreeSlots == {s \in Slots : workers[s].pc = "idle"}

\* check_queue; elapsed: 15 minutes have passed since the last scan
CheckQueue ==
    /\ loop
    /\ \E elapsed \in (IF events < MaxEvents THEN BOOLEAN ELSE {FALSE}) :
         \E q \in (IF elapsed /\ is_running /\ net
                   THEN scan_existing_files(file_queue) ELSE {file_queue}) :
           /\ events' = (IF elapsed THEN events + 1 ELSE events)
           /\ IF is_running /\ ~net
              THEN /\ retries < MaxRetries
                   /\ is_running' = FALSE
                   /\ retries' = retries + 1
                   /\ loop' = FALSE
                   /\ file_queue' = q
                   /\ UNCHANGED workers
              ELSE IF ~queue_busy /\ q # <<>>
              THEN /\ FreeSlots # {}
                   /\ workers' = [workers EXCEPT ![first(FreeSlots)] =
                          [Idle EXCEPT !.pc = "spawned", !.path = Head(q)]]
                   /\ file_queue' = Tail(q)
                   /\ UNCHANGED <<is_running, retries, loop>>
              ELSE /\ file_queue' = q
                   /\ UNCHANGED <<is_running, retries, loop, workers>>
    /\ UNCHANGED <<net, files, doc, queue_busy, observer, observers, remote>>

\* ----------------------------------------------------------- specification
\* The remote system as the program finds it: no record yet, a partner with
\* the buyer's VAT number, a posted invoice with the document's number that
\* belongs to a partner with another VAT number, the buyer's partner and an
\* invoice with the document's number that was created and neither attached
\* to nor posted, or the buyer's partner and a posted invoice with the
\* document's number.
InitRemote ==
    /\ wizards = <<>>
    /\ \/ partners = <<>> /\ invoices = <<>>
       \/ partners = <<[vat |-> BuyerVat, state |-> "valid"]>> /\ invoices = <<>>
       \/ /\ partners = <<[vat |-> BuyerVat, state |-> "valid"]>>
          /\ invoices = <<[ref |-> InvoiceNo, partner_id |-> 1,
                           state |-> "draft", peppol |-> "ready", attached |-> FALSE,
                           invoice_date |-> InvoiceDate, lines |-> <<>>]>>
       \/ /\ partners = <<[vat |-> OtherVat, state |-> "valid"]>>
          /\ invoices = <<[ref |-> InvoiceNo, partner_id |-> 1,
                           state |-> "posted", peppol |-> "ready", attached |-> TRUE,
                           invoice_date |-> InvoiceDate, lines |-> <<>>]>>
       \/ \E ps \in PartnerStates, ms \in MoveStates :
            /\ partners = <<[vat |-> BuyerVat, state |-> ps]>>
            /\ invoices = <<[ref |-> InvoiceNo, partner_id |-> 1,
                             state |-> "posted", peppol |-> ms, attached |-> TRUE,
                             invoice_date |-> InvoiceDate, lines |-> <<>>]>>

\* The state App.__init__ leaves: the loop is scheduled and start_monitoring
\* has run once on an empty watched folder.
InitApp ==
    /\ files = [p \in Paths |-> [loc |-> "none", name |-> NoName, run |-> NoRun]]
    /\ file_queue = <<>>
    /\ is_running = net
    /\ queue_busy = FALSE
    /\ observer = net
    /\ observers = (IF net THEN 1 ELSE 0)
    /\ loop = TRUE
    /\ retries = (IF net THEN 0 ELSE 1)
    /\ workers = [s \in Slots |-> Idle]

\* Monitoring under a changing environment: the share comes and goes, the
\* user presses the button, scan periods elapse.
Init ==
    /\ net \in BOOLEAN
    /\ events = 0
    /\ doc = [p \in Paths |-> Conformant]
    /\ InitApp
    /\ wizards = <<>>
    /\ \/ partners = <<>> /\ invoices = <<>>
       \/ /\ partners = <<[vat |-> BuyerVat, state |-> "valid"]>>
          /\ invoices = <<[ref |-> InvoiceNo, partner_id |-> 1,
                           state |-> "posted", peppol |-> "ready", attached |-> TRUE,
                           invoice_date |-> InvoiceDate, lines |-> <<>>]>>

Worker(s) ==
    \/ WorkerBegin(s)
    \/ WorkerWait(s)
    \/ ResolvePartner(s)
    \/ CreatePartner(s)
    \/ CheckDuplicate(s)
    \/ CreateInvoice(s)
    \/ Deliver(s)
    \/ MoveFile(s)
    \/ ShutilMove(s)

Next ==
    \/ \E p \in Paths : DropFile(p)
    \/ NetworkChange
    \/ ToggleMonitoring
    \/ RetryStart
    \/ CheckQueue
    \/ \E s \in Slots : Worker(s)

Spec == Init /\ [][Next]_vars

\* Posting and delivery with the watched folder reachable and monitoring left
\* running: any documents, any remote state.
InitPosting ==
    /\ net = TRUE
    /\ events = MaxEvents
    /\ doc \in [Paths -> Docs]
    /\ InitApp
    /\ InitRemote

NextPosting ==
    \/ \E p \in Paths : DropFile(p)
    \/ CheckQueue
    \/ \E s \in Slots : Worker(s)

SpecPosting == InitPosting /\ [][NextPosting]_vars

\* The same with the files processed in sequence: a worker is started only
\* when no other is running.
NextSequential ==
    /\ NextPosting
    /\ Cardinality({s \in Slots : workers'[s].pc # "idle"}) <= 1

SpecSequential == InitPosting /\ [][NextSequential]_vars

\* The event loop and the threads run whenever they can; the environment
\* (network, user, new files) owes nothing.
FairSpec ==
    /\ Spec
    /\ WF_vars(CheckQueue)
    /\ WF_vars(RetryStart)
    /\ \A s \in Slots : WF_vars(Worker(s))

\* ------------------------------------------------------------------ claims
BeingProcessed(p) == \E s \in Slots : workers[s].pc # "idle" /\ workers[s].path = p
Moved(p) == files[p].loc \in OutcomeFolders
RemoteFault == "Connection error"
NoLines == "No invoice lines created. Check parsed totals."
Manual == "Partner verification triggered: Manual sending required"
CreateCalls == {"res.partner.create", "account.move.create", "ir.attachment.create",
                "wizard.create"}
WizardCalls == {"action_invoice_sent", "wizard.create", "action_send_and_print"}

\* C1: every file that was detected (under SpecPosting an observer runs at
\* every drop, so every dropped file) is in the queue, with a worker, or in an
\* outcome folder.
C1_NoFileDropped ==
    \A p \in Paths :
        files[p].loc # "none" => InQueue(file_queue, p) \/ BeingProcessed(p) \/ Moved(p)

\* C2: a file whose worker raised is in the error folder, and once a worker
\* has failed, every file that waits in the queue is eventually dispatched,
\* provided the watch folder stays reachable from then on.
C2_PipelineContinues ==
    /\ [](\A q \in Paths : Moved(q) /\ files[q].run.error # "" => files[q].loc = ERROR_FOLDER)
    /\ \A p \in Paths :
          []((\E q \in Paths : files[q].run.error # "") /\ InQueue(file_queue, p)
                /\ files[p].loc = WATCH_FOLDER /\ []net
               => <>BeingProcessed(p))

\* C3: when a postable document was read and its run has ended without a remote fault, a
\* later duplicate check for a document with the same number finds that
\* invoice: the call answers "already exists" and one invoice has the number.
C3_SecondPostFindsFirst ==
    [][\A s \in Slots, q \in Paths :
          ( /\ workers[s].pc = "check_duplicate"
            /\ workers'[s].pc # "check_duplicate"
            /\ workers'[s].error # RemoteFault
            /\ q # workers[s].path
            /\ doc[q] = Conformant /\ doc[workers[s].path] = Conformant
            /\ Moved(q) /\ files[q].run # NoRun /\ files[q].run.error # RemoteFault )
          => /\ workers'[s].invoice_message = "already exists"
             /\ Cardinality(move_ids(InvoiceNo)) = 1]_vars

\* C4: a conformant document that is new to the remote system and was ready
\* to read, with a valid partner and no remote failure, ends in the sent folder under the generated
\* name, with one posted invoice of its number and one partner of its VAT.
C4_EndToEnd ==
    \A p \in Paths :
        ( /\ doc[p] = Conformant
          /\ Moved(p)
          /\ files[p].run # NoRun
          /\ files[p].run.error # RemoteFault
          /\ files[p].run.invoice_message # "already exists"
          /\ partner_ids(BuyerVat) # {}
          /\ \A i \in partner_ids(BuyerVat) : partners[i].state = "valid" )
        => /\ files[p].loc = SENT_FOLDER
           /\ files[p].name.base = generate_filename(extract_invoice_metadata(doc[p]),
                                                     extract_buyer_info(doc[p]))
           /\ Cardinality({i \in move_ids(InvoiceNo) : invoices[i].state = "posted"}) = 1
           /\ Cardinality(partner_ids(BuyerVat)) = 1

\* C5: a record whose totals are all zero, for a number the remote system
\* does not hold, makes create_post_invoice fail, and when it fails the call
\* has issued no remote create.
C5_NoCreateBeforeFailure ==
    \A s \in Slots :
        LET w == workers[s]
        IN  w.pc # "idle" /\ doc[w.path] = ZeroTotals /\ move_ids(InvoiceNo) = {}
            => /\ w.pc # "send_peppol_verify"
               /\ (w.pc = "move_file" /\ w.error = NoLines
                      => w.issued \cap CreateCalls = {})

\* the total the extractor found for a tax bucket
bucket_total(totals, rate) ==
    CASE rate = 0 -> totals.btw_0_amount
      [] rate = 6 -> totals.btw_6_amount
      [] rate = 21 -> totals.btw_21_amount

\* C6: for the totals the extractor produces, the lines built have exactly one
\* line for each bucket with a total above zero and none for the others.
C6_OneLinePerBucket ==
    \A p \in Paths :
        LET totals == extract_totals(doc[p])
            lines == create_invoice_lines(totals)
        IN  \A rate \in {0, 6, 21} :
                Cardinality({i \in DOMAIN lines : lines[i].tax = rate})
                    = (IF bucket_total(totals, rate) > 0 THEN 1 ELSE 0)

\* C7: delivery on an invoice whose partner is neither valid nor not_valid
\* creates no send wizard and, unless the remote call fails, triggers the
\* verification check and returns the manual-sending message.
C7_UnverifiedTriggersCheck ==
    [][\A s \in Slots :
          ( /\ workers[s].pc = "send_peppol_verify"
            /\ workers'[s].pc # "send_peppol_verify"
            /\ partners[invoices[workers[s].invoice_id].partner_id].state
                   \notin {"valid", "not_valid"} )
          => /\ wizards' = wizards
             /\ workers'[s].issued \cap WizardCalls = {}
             /\ \/ /\ workers'[s].ret = Str(Manual)
                   /\ "button_account_peppol_check_partner_endpoint" \in workers'[s].issued
                \/ workers'[s].ret = Raise(RemoteFault)]_vars

C7_Witness ==
    \E s \in Slots :
        /\ workers[s].pc = "move_file"
        /\ workers[s].ret = Str(Manual)
        /\ "button_account_peppol_check_partner_endpoint" \in workers[s].issued
        /\ wizards = <<>>

\* C8: a file whose delivery ended pending (verification triggered) is in the
\* posted-not-delivered folder, and its invoice is still posted.
C8_PendingGoesToPosted ==
    \A p \in Paths :
        Moved(p) /\ files[p].run.ret = Str(Manual)
        => /\ files[p].loc = POSTED_FOLDER
           /\ \A i \in move_ids(doc[p].faktuur) : invoices[i].state = "posted"

\* C9: delivery of an invoice that is already sent reports success and issues
\* no send wizard call.
C9_AlreadySentSucceeds ==
    \A s \in Slots :
        workers[s].pc = "move_file" /\ workers[s].ret.msg = "Already sent"
        => /\ workers[s].ret.ok
           /\ workers[s].issued \cap WizardCalls = {}

\* C10: a file whose invoice is in delivery state error is moved to the
\* error folder, and nothing is sent.
C10_ErrorStateGoesToError ==
    \A p \in Paths :
        Moved(p) /\ files[p].run.ret.msg = "Peppol failed"
        => files[p].loc = ERROR_FOLDER

NotOnPeppol == "Partner not on Peppol"
\* worker s takes the step that calls delivery
Delivers(s) == workers[s].pc = "send_peppol_verify" /\ workers'[s].pc # "send_peppol_verify"
\* the file of path p is in the error folder because its partner is not on Peppol
NotValidFailed(p) == files[p].loc = ERROR_FOLDER /\ files[p].run.ret = Raise(NotOnPeppol)

\* how many times path p is in queue q
QueueCount(q, p) == Cardinality({i \in DOMAIN q : q[i] = p})

\* C11: delivery for a partner in state not_valid creates and executes no send
\* wizard and sends the worker to the error folder; once the file is there it
\* stays there and its path is not put in the queue again.
C11_NotValidFailsPermanently ==
    [][/\ \A s \in Slots :
            Delivers(s)
            /\ partners[invoices[workers[s].invoice_id].partner_id].state = "not_valid"
            => /\ wizards' = wizards
               /\ workers'[s].issued \cap WizardCalls = {}
               /\ workers'[s].ret \in {Raise(NotOnPeppol), Raise(RemoteFault)}
               /\ workers'[s].pc = "move_file"
               /\ workers'[s].folder = ERROR_FOLDER
       /\ \A p \in Paths :
            NotValidFailed(p)
            => /\ files'[p] = files[p]
               /\ QueueCount(file_queue', p) <= QueueCount(file_queue, p)]_vars

C11_Witness ==
    /\ \E p \in Paths : NotValidFailed(p)
    /\ wizards = <<>>

\* worker s returns to its caller from the path taken when the file was not
\* ready (the only path that leaves without the finally clause)
ReturnsNotReady(s) ==
    /\ workers[s].pc \in {"move_file", "shutil_move"}
    /\ ~workers[s].fin
    /\ workers'[s].pc = "idle"

\* C12: a worker whose file did not become ready has made no remote call, has
\* not parsed the file, and leaves the file in the error folder.
C12_NotReadyGoesToError ==
    [][\A s \in Slots :
          ReturnsNotReady(s)
          => /\ workers[s].issued = {}
             /\ workers[s].partner_id = 0 /\ workers[s].new_filename = None
             /\ remote' = remote
             /\ files'[workers[s].path].loc = ERROR_FOLDER]_vars

Missing == "Missing crucial invoice data"

\* C13: when processing fails because the invoice number or date was not
\* found, the worker has created no partner and no invoice, and the file goes
\* to the error folder.
C13_MissingNumberFailsFirst ==
    \A s \in Slots :
        workers[s].pc = "move_file" /\ workers[s].error = Missing
        => /\ workers[s].issued = {}
           /\ workers[s].folder = ERROR_FOLDER

\* C14: when files are moved one after the other, no file is replaced or
\* removed, and a file in an outcome folder has the first name of name,
\* name_1, name_2, ... that was free when it arrived.
C14_SuffixNeverOverwrites ==
    \A p \in Paths :
        /\ files[p].loc # "lost"
        /\ Moved(p) => /\ \A m \in 0..(files[p].name.n - 1) :
                              dest_exists(files[p].loc, FileName(files[p].name.base, m))
                       /\ \A q \in Paths \ {p} :
                              files[q].loc = files[p].loc => files[q].name # files[p].name

C14_Witness ==
    \E p \in Paths : Moved(p) /\ files[p].name.n = 1

\* C15: a step that scans the folder (the folder's files stay where they are
\* and a path gains an entry in the queue) adds no path that was in the queue
\* or with a worker.
C15_RescanAddsNoDuplicate ==
    [][\A p \in Paths :
          files' = files /\ QueueCount(file_queue', p) > QueueCount(file_queue, p)
          => ~InQueue(file_queue, p) /\ ~BeingProcessed(p)]_vars

\* monitoring is suspended with a start retry pending in the event loop
Suspended == ~is_running /\ retries > 0

\* C16: monitoring that stops without the user stopping it (the observer is
\* kept) stops because the folder is lost and leaves a retry pending, and a file that is in the folder while monitoring is
\* suspended is eventually dispatched, provided the folder is reachable and
\* stays so.
C16_ResumesAfterNetworkLoss ==
    /\ [][is_running /\ ~is_running' /\ observer' => ~net /\ retries' = retries + 1]_vars
    /\ \A p \in Paths :
          [](Suspended /\ files[p].loc = WATCH_FOLDER /\ []net => <>BeingProcessed(p))

\* C17: the step that stops monitoring leaves no watcher thread running and
\* touches no worker, and while monitoring is stopped a file that appears in
\* the folder is not put in the queue.
C17_StopJoinsWatcher ==
    [][/\ is_running /\ ~is_running' /\ ~observer'
            => observers' = 0 /\ workers' = workers
       /\ ~is_running /\ ~observer /\ (\E p \in Paths : files[p].loc = "none" /\ files'[p].loc # "none")
            => file_queue' = file_queue]_vars

\* a date given as <<day, month, year>>, in year-month-day order
iso_order(date) == <<date[3], date[2], date[1]>>

\* C18: when a worker is about to build the values of the invoice create
\* call, the invoice_date it holds is the document's date in year-month-day
\* order.
C18_DateIsIso ==
    \A s \in Slots :
        workers[s].pc = "create_invoice"
        => parse_invoice(doc[workers[s].path]).metadata.invoice_date
              = iso_order(doc[workers[s].path].datum)

\* the workers that have been started and have not returned
Active == {s \in Slots : workers[s].pc # "idle"}

\* C19: at most one worker is active.
C19_OneWorkerAtATime == Cardinality(Active) <= 1

\* C20: at most one remote invoice carries a given invoice number.
C20_OneInvoicePerNumber ==
    \A i, j \in DOMAIN invoices : invoices[i].ref = invoices[j].ref => i = j

\* two workers hold different files with the same invoice number and both
\* have found no invoice with that number
C20_Witness ==
    \E s, t \in Slots :
        /\ s # t
        /\ workers[s].pc = "create_invoice" /\ workers[t].pc = "create_invoice"
        /\ workers[s].path # workers[t].path
        /\ doc[workers[s].path].faktuur = doc[workers[t].path].faktuur

\* C21: a create_post_invoice call that returns because the invoice exists
\* has created no remote record, and the step that finds the invoice leaves
\* the remote records as they are.
C21_ExistingCreatesNothing ==
    [][\A s \in Slots :
          workers[s].pc = "check_duplicate" /\ workers'[s].pc = "send_peppol_verify"
          => /\ remote' = remote
             /\ workers'[s].invoice_message = "already exists"
             /\ workers'[s].issued = {}]_vars

\* C22: a worker whose record has no tax total above zero never gets the
\* 'already exists' outcome and never goes on to delivery: posting fails.
C22_LinesBeforeIdempotency ==
    \A s \in Slots :
        workers[s].pc # "idle" /\ doc[workers[s].path] = ZeroTotals
        => /\ workers[s].invoice_message # "already exists"
           /\ workers[s].pc # "send_peppol_verify"

\* C23: whatever the interleaving of the workers, no file is replaced by a
\* move and two files of one outcome folder have different names.
C23_ConcurrentMovesSafe ==
    /\ \A p \in Paths : files[p].loc # "lost"
    /\ \A p, q \in Paths :
          p # q /\ Moved(p) /\ files[q].loc = files[p].loc => files[q].name # files[p].name

\* C24: when no worker is running the busy flag is down.
C24_BusyOnlyWhileWorking == Active = {} => ~queue_busy

\* C25: a worker that holds the invoice id create_post_invoice returned holds
\* the id of an invoice that is posted and has the document attached.
C25_ReturnedIdIsPosted ==
    \A s \in Slots :
        workers[s].pc = "send_peppol_verify"
        => /\ invoices[workers[s].invoice_id].state = "posted"
           /\ invoices[workers[s].invoice_id].attached

\* C26: at most one observer runs on the watched folder, and a file that
\* appears in it gets at most one entry in the queue.
C26_OneObserver ==
    [][/\ observers' <= 1
       /\ \A p \in Paths :
             files[p].loc = "none" /\ files'[p].loc # "none"
             => QueueCount(file_queue', p) <= QueueCount(file_queue, p) + 1]_vars

\* C27: a file is in the sent folder only if delivery reported success in the
\* run that moved it, and delivery reports success only when the wizard's
\* send-and-print call was issued and returned for that invoice; a file whose
\* delivery raised or did not send is never in the sent folder.
C27_SentOnlyOnSuccess ==
    [][/\ \A p \in Paths :
             files'[p].loc = SENT_FOLDER
             => /\ files'[p].run.ret = Pair(TRUE, "Invoice sent via Peppol")
                /\ files'[p].run.error = ""
       /\ \A s \in Slots :
             Delivers(s) /\ workers'[s].ret.kind = "pair" /\ workers'[s].ret.ok
             => /\ "action_send_and_print" \in workers'[s].issued
                /\ wizards' = Append(wizards, [move_id |-> workers[s].invoice_id,
                                                sent |-> TRUE])
                /\ workers'[s].pc = "move_file"
                /\ workers'[s].folder = SENT_FOLDER]_vars

\* A file lies in the sent folder after a delivery that reported success.
C27_Witness ==
    \E p \in Paths :
        /\ files[p].loc = SENT_FOLDER
        /\ \E i \in 1..Len(wizards) : wizards[i].sent
====
